---- MODULE Spec2Model ----
(***************************************************************************)
(* A model of vaultwarden's Send (src/db/models/send.rs) and of the        *)
(* password hashing it uses (src/crypto.rs).                               *)
(*                                                                         *)
(* Optional values (Rust Option<T>) are sequences of length at most one:   *)
(* None is <<>> and Some(x) is <<x>>.                                      *)
(*                                                                         *)
(* A request handler is a process p: mem[p] is the Send it holds in        *)
(* memory, pc[p] its position.  Every .await of save, delete and purge is  *)
(* a point where another handler may run, so each awaited call is one step.*)
(***************************************************************************)
EXTENDS Integers, Sequences, FiniteSets, TLC

VARIABLES
    now,        \* Utc::now(), a clock that never goes back
    store,      \* the sends table: id -> Option<row>
    blobs,      \* ids that have files in the blob store (PathType::Sends)
    pc,         \* position of each handler
    op,         \* the operation each handler runs
    mem,        \* the Send each handler holds: Option<Send>
    todo,       \* purge / delete_all_by_user: the sends still to delete
    log,        \* the calls made to the collaborators by the current save/delete
    result,     \* the value the last call returned: Option<...>
    swept,      \* purge: <<id, result of its delete>> of every delete finished
    snap,       \* purge: the sends table as the query of the sweep read it
    qnow,       \* purge: the `now` the query of the sweep read
    lastpw,     \* argument of the last set_password on mem[p]: Option<Option<pw>>
    input,      \* find_by_access_id: the access id given
    issued      \* the ids get_uuid() has returned so far

vars == <<now, store, blobs, pc, op, mem, todo, log, result, swept, snap, qnow,
          lastpw, input, issued>>

----------------------------------------------------------------------------
(* Bounds *)

NumIds == 2
NumProcs == 2
MaxTime == 2
MaxAccess == 1

Ids == 1..NumIds
Procs == 1..NumProcs
Times == 0..MaxTime

Users == {"u1"}
Passwords == {"p1", "p2", "p3"}
Salts == {1, 2}

None == <<>>
Some(x) == <<x>>
IsSome(o) == o # <<>>
Unwrap(o) == o[1]

----------------------------------------------------------------------------
(* i64.  A value is three limbs <<hi, mid, lo>> of 22, 21 and 21 bits,     *)
(* hi * 2^42 + mid * 2^21 + lo, with hi signed: the 64 bits of the machine *)
(* integer.  Sums are formed exactly and then tested against the range.    *)

Limb == 2097152

\* carries moved upwards; hi is left as large as it comes out
Norm(x) ==
    <<x[1] + (x[2] + x[3] \div Limb) \div Limb,
      (x[2] + x[3] \div Limb) % Limb,
      x[3] % Limb>>

\* the i64 of a small literal
I64(n) == Norm(<<0, 0, n>>)

I64_MAX == <<Limb - 1, Limb - 1, Limb - 1>>
I64_MIN == <<-Limb, 0, 0>>

InI64(x) == x[1] >= -Limb /\ x[1] < Limb

ExactSum(a, b) == Norm(<<a[1] + b[1], a[2] + b[2], a[3] + b[3]>>)
ExactTimes10(a) == Norm(<<a[1] * 10, a[2] * 10, a[3] * 10>>)

\* i64::wrapping_add
wrapping_add(a, b) ==
    LET x == ExactSum(a, b)
    IN  Some(<<((x[1] + Limb) % (2 * Limb)) - Limb, x[2], x[3]>>)

\* i64::checked_add
checked_add(a, b) ==
    IF InI64(ExactSum(a, b)) THEN Some(ExactSum(a, b)) ELSE None

\* i64::checked_mul(10)
checked_mul10(a) ==
    IF InI64(ExactTimes10(a)) THEN Some(ExactTimes10(a)) ELSE None

\* the decimal digits of an exact value that is not negative
RECURSIVE Digits(_)
Digits(x) ==
    LET m == (x[1] % 10) * Limb + x[2]
        l == (m % 10) * Limb + x[3]
        q == <<x[1] \div 10, m \div 10, l \div 10>>
    IN  IF q = <<0, 0, 0>> THEN <<l % 10>> ELSE Append(Digits(q), l % 10)

(* Text.  A character is a decimal digit, 0..9, a sign, or another one.   *)
Plus == 10
Minus == 11
Letter == 12

\* i64::to_string
to_string(x) ==
    IF x[1] < 0 THEN <<Minus>> \o Digits(Norm(<<-x[1], -x[2], -x[3]>>))
    ELSE Digits(x)

\* <i64 as FromStr>::from_str after the sign: every digit is accumulated
\* with checked_mul and checked_add (checked_sub for a negative number)
RECURSIVE ParseDigits(_, _, _)
ParseDigits(s, acc, negative) ==
    IF s = <<>> THEN Some(acc)
    ELSE IF Head(s) > 9 THEN None
    ELSE LET m == checked_mul10(acc)
             d == I64(IF negative THEN -Head(s) ELSE Head(s))
         IN  IF m = None THEN None
             ELSE IF checked_add(Unwrap(m), d) = None THEN None
             ELSE ParseDigits(Tail(s), Unwrap(checked_add(Unwrap(m), d)), negative)

\* str::parse::<i64>: an optional sign and at least one digit
ParseI64(s) ==
    IF s = <<>> THEN None
    ELSE IF Head(s) \in {Plus, Minus}
         THEN IF Tail(s) = <<>> THEN None
              ELSE ParseDigits(Tail(s), I64(0), Head(s) = Minus)
    ELSE ParseDigits(s, I64(0), FALSE)

----------------------------------------------------------------------------
(* src/crypto.rs *)

\* `x as u32` of an i32, for the non-negative values a record's cost fields
\* hold (set_password stores 2, 1048576 and 8; legacy rows store iterations > 0)
AsU32(x) == x

Panic == <<"panic">>

\* hash_password.  The digest is symbolic: the algorithm and everything that
\* goes into it (PBKDF2-HMAC-SHA256 and Argon2id taken as collision free).
hash_password(secret, salt, iterations, memory, parallelism) ==
    IF iterations = 0 THEN Panic
    ELSE IF memory = 0 /\ parallelism = 0
         THEN <<"pbkdf2", secret, salt, iterations>>
    ELSE IF memory = 0 \/ parallelism = 0 THEN Panic
    ELSE <<"argon2id", secret, salt, iterations, memory, parallelism>>

\* verify_password_hash that lets a single zero among memory and
\* parallelism through
verify_panics_on_iterations(iterations, memory, parallelism) ==
    iterations = 0

\* verify_password_hash panics exactly where hash_password does
verify_panics(iterations, memory, parallelism) ==
    \/ iterations = 0
    \/ (memory = 0) # (parallelism = 0)

\* verify_password_hash always accepts: the comparison is dropped
verify_accepts_all(secret, salt, previous, iterations, memory, parallelism) ==
    TRUE

\* verify_password_hash, where it does not panic: pbkdf2::verify / verify_raw
\* derive again and compare with `previous`
verify_password_hash(secret, salt, previous, iterations, memory, parallelism) ==
    IF memory = 0 /\ parallelism = 0
    THEN <<"pbkdf2", secret, salt, iterations>> = previous
    ELSE <<"argon2id", secret, salt, iterations, memory, parallelism>> = previous

----------------------------------------------------------------------------
(* src/db/models/send.rs: the record *)

Text == 0
File == 1

PASSWORD_ITER == 2
PASSWORD_MEM == 1048576
PASSWORD_PARA == 8

(* The data of a send is JSON text.  A text is taken by what serde_json   *)
(* makes of it: <<"invalid">> when it is not JSON, and otherwise the member *)
(* a FileData is read from, <<key, value>> with value <<"Number", i64>>,    *)
(* <<"String", characters>> or <<"Other">> (a float, a bool, ...), or       *)
(* <<"none">> for an object with no such member.                           *)
NoSize == <<"none">>

\* Send::new; the caller attaches the owner and the optional fields afterwards
NewSend(uuid, atype, deletion_date, t) ==
    [ uuid            |-> uuid,
      user_uuid       |-> None,
      atype           |-> atype,
      name            |-> "name",
      notes           |-> None,
      data            |-> NoSize,
      akey            |-> "akey",
      max_access_count |-> None,
      hide_email      |-> None,
      password_hash   |-> None,
      password_salt   |-> None,
      password_iter   |-> None,
      password_mem    |-> None,
      password_para   |-> None,
      access_count    |-> 0,
      revision_date   |-> t,
      expiration_date |-> None,
      deletion_date   |-> deletion_date,
      disabled        |-> FALSE ]

\* set_password(None) that forgets to clear the salt
ClearPasswordKeepsSalt(s) ==
    [s EXCEPT !.password_iter = None, !.password_mem = None,
              !.password_para = None, !.password_hash = None]

\* set_password(None)
ClearPassword(s) ==
    [s EXCEPT !.password_iter = None, !.password_mem = None,
              !.password_para = None, !.password_salt = None,
              !.password_hash = None]

\* set_password(Some(password)) that keeps the costs a record already has
SetPasswordKeepsCosts(s) ==
    IF IsSome(s.password_iter) THEN s
    ELSE [s EXCEPT !.password_iter = Some(PASSWORD_ITER),
                   !.password_mem = Some(PASSWORD_MEM),
                   !.password_para = Some(PASSWORD_PARA)]

\* set_password(Some(password)) up to the call of hash_password
SetPasswordCosts(s) ==
    [s EXCEPT !.password_iter = Some(PASSWORD_ITER),
              !.password_mem = Some(PASSWORD_MEM),
              !.password_para = Some(PASSWORD_PARA)]

PasswordHashOf(password, salt) ==
    hash_password(password, salt, AsU32(PASSWORD_ITER), AsU32(PASSWORD_MEM),
                  AsU32(PASSWORD_PARA))

\* set_password(Some(password)) with `salt` the 64 random bytes drawn.
\* A panic of hash_password leaves the three cost fields assigned.
SetPasswordSome(s, password, salt) ==
    IF PasswordHashOf(password, salt) = Panic
    THEN SetPasswordCosts(s)
    ELSE [SetPasswordCosts(s) EXCEPT
              !.password_salt = Some(salt),
              !.password_hash = Some(PasswordHashOf(password, salt))]

AllPasswordFields(s) ==
    /\ IsSome(s.password_hash)
    /\ IsSome(s.password_salt)
    /\ IsSome(s.password_iter)
    /\ IsSome(s.password_mem)
    /\ IsSome(s.password_para)

check_panics(s) ==
    /\ AllPasswordFields(s)
    /\ verify_panics(AsU32(Unwrap(s.password_iter)), AsU32(Unwrap(s.password_mem)),
                     AsU32(Unwrap(s.password_para)))

\* check_password, where it does not panic
check_password(s, password) ==
    IF AllPasswordFields(s)
    THEN verify_password_hash(password, Unwrap(s.password_salt),
                              Unwrap(s.password_hash),
                              AsU32(Unwrap(s.password_iter)),
                              AsU32(Unwrap(s.password_mem)),
                              AsU32(Unwrap(s.password_para)))
    ELSE FALSE

----------------------------------------------------------------------------
(* State *)

Init ==
    /\ now = 0
    /\ store = [i \in Ids |-> None]
    /\ blobs = {}
    /\ pc = [p \in Procs |-> "idle"]
    /\ op = [p \in Procs |-> "none"]
    /\ mem = [p \in Procs |-> None]
    /\ todo = [p \in Procs |-> <<>>]
    /\ log = [p \in Procs |-> <<>>]
    /\ result = [p \in Procs |-> None]
    /\ swept = [p \in Procs |-> <<>>]
    /\ snap = [p \in Procs |-> None]
    /\ qnow = [p \in Procs |-> 0]
    /\ lastpw = [p \in Procs |-> None]
    /\ input = [p \in Procs |-> <<>>]
    /\ issued = {}

\* Utc::now() advances
Tick ==
    /\ now < MaxTime
    /\ now' = now + 1
    /\ UNCHANGED <<store, blobs, pc, op, mem, todo, log, result, swept, snap,
                   qnow, lastpw, input, issued>>

\* what get_uuid() can return: a random id, never one it returned before
FreshIds == Ids \ issued

Holding(p) == pc[p] = "idle" /\ IsSome(mem[p])

\* A handler builds a record: Send::new, then the owner is attached
New(p, atype, owner, deletion_date) ==
    /\ pc[p] = "idle" /\ mem[p] = None
    /\ \E uuid \in FreshIds :
          /\ mem' = [mem EXCEPT ![p] =
                       Some([NewSend(uuid, atype, deletion_date, now)
                                 EXCEPT !.user_uuid = owner])]
          /\ issued' = issued \cup {uuid}
    /\ lastpw' = [lastpw EXCEPT ![p] = None]
    /\ UNCHANGED <<now, store, blobs, pc, op, todo, log, result, swept, snap,
                   qnow, input>>

\* hash_password is called: input[p] its arguments, result[p] the digest
HashPassword(p, secret, salt, iterations, memory, parallelism) ==
    /\ pc[p] = "idle" /\ mem[p] = None
    /\ op' = [op EXCEPT ![p] = "hash"]
    /\ input' = [input EXCEPT ![p] = <<secret, salt, iterations, memory, parallelism>>]
    /\ IF hash_password(secret, salt, iterations, memory, parallelism) = Panic
       THEN /\ pc' = [pc EXCEPT ![p] = "panicked"]
            /\ UNCHANGED result
       ELSE /\ pc' = [pc EXCEPT ![p] = "hash_done"]
            /\ result' = [result EXCEPT ![p] =
                  Some(hash_password(secret, salt, iterations, memory, parallelism))]
    /\ UNCHANGED <<now, store, blobs, mem, todo, log, swept, snap, qnow, lastpw,
                   issued>>

\* verify_password_hash is called: input[p] its arguments, log[p] the
\* library call it makes, result[p] the bool
VerifyPasswordHash(p, secret, salt, previous, iterations, memory, parallelism) ==
    /\ pc[p] = "idle" /\ mem[p] = None
    /\ op' = [op EXCEPT ![p] = "verify"]
    /\ input' = [input EXCEPT ![p] =
                   <<secret, salt, iterations, memory, parallelism, previous>>]
    /\ IF verify_panics(iterations, memory, parallelism)
       THEN /\ pc' = [pc EXCEPT ![p] = "panicked"]
            /\ UNCHANGED <<result, log>>
       ELSE /\ pc' = [pc EXCEPT ![p] = "verify_done"]
            /\ log' = [log EXCEPT ![p] =
                  IF memory = 0 /\ parallelism = 0 THEN <<"pbkdf2::verify">>
                                                   ELSE <<"verify_raw">>]
            /\ result' = [result EXCEPT ![p] =
                  Some(verify_password_hash(secret, salt, previous, iterations,
                                            memory, parallelism))]
    /\ UNCHANGED <<now, store, blobs, mem, todo, swept, snap, qnow, lastpw, issued>>

\* A handler holds a send whose password an earlier version set: PBKDF2
\* with `iterations`, memory and parallelism 0
LegacySend(p, password, salt, iterations) ==
    /\ pc[p] = "idle" /\ mem[p] = None
    /\ \E uuid \in FreshIds :
          /\ mem' = [mem EXCEPT ![p] =
                       Some([NewSend(uuid, Text, MaxTime, now) EXCEPT
                                !.password_hash =
                                    Some(hash_password(password, salt, iterations, 0, 0)),
                                !.password_salt = Some(salt),
                                !.password_iter = Some(iterations),
                                !.password_mem = Some(0),
                                !.password_para = Some(0)])]
          /\ issued' = issued \cup {uuid}
    /\ lastpw' = [lastpw EXCEPT ![p] = None]
    /\ UNCHANGED <<now, store, blobs, pc, op, todo, log, result, swept, snap,
                   qnow, input>>

\* The handler ends and its record goes out of scope
Drop(p) ==
    /\ Holding(p)
    /\ mem' = [mem EXCEPT ![p] = None]
    /\ lastpw' = [lastpw EXCEPT ![p] = None]
    /\ result' = [result EXCEPT ![p] = None]
    /\ UNCHANGED <<now, store, blobs, pc, op, todo, log, swept, snap, qnow, input,
                   issued>>

\* set_password
SetPassword(p, password, salt) ==
    /\ Holding(p)
    /\ mem' = [mem EXCEPT ![p] =
                 Some(IF password = None
                      THEN ClearPassword(Unwrap(mem[p]))
                      ELSE SetPasswordSome(Unwrap(mem[p]), Unwrap(password), salt))]
    /\ pc' = [pc EXCEPT ![p] =
                 IF password # None /\ PasswordHashOf(Unwrap(password), salt) = Panic
                 THEN "panicked" ELSE "idle"]
    /\ lastpw' = [lastpw EXCEPT ![p] = Some(password)]
    /\ result' = [result EXCEPT ![p] = None]
    /\ UNCHANGED <<now, store, blobs, op, todo, log, swept, snap, qnow, input,
                   issued>>

\* check_password: result[p] is <<candidate, answer>>
CheckPassword(p, password) ==
    /\ Holding(p)
    /\ IF check_panics(Unwrap(mem[p]))
       THEN /\ pc' = [pc EXCEPT ![p] = "panicked"]
            /\ UNCHANGED result
       ELSE /\ result' = [result EXCEPT ![p] =
                            Some(<<password, check_password(Unwrap(mem[p]), password)>>)]
            /\ UNCHANGED pc
    /\ UNCHANGED <<now, store, blobs, op, mem, todo, log, swept, snap, qnow,
                   lastpw, input, issued>>

----------------------------------------------------------------------------
(* src/db/models/send.rs: persistence *)

Last(q) == q[Len(q)]

\* find_by_uuid
find_by_uuid(uuid) == store[uuid]

\* update_users_revision that notifies nobody
update_users_revision_none(s) == <<>>

\* update_users_revision that notifies for every send
update_users_revision_all(s) == <<"notify">>

\* update_users_revision: notifies the user owner if there is one
\* (a send of an organization: "not implemented")
update_users_revision(s) ==
    IF IsSome(s.user_uuid) THEN <<"notify">> ELSE <<>>

\* delete that removes blobs for every kind of send
AlwaysBlobRemoval(s) == TRUE

\* delete: `if self.atype == SendType::File as i32`
NeedsBlobRemoval(s) == s.atype = File

\* the filter with `le` in place of `lt`
PastOrPresentDeletionDate(row, t) == row.deletion_date <= t

\* the filter that wants the date more than one tick back
PastByMoreThanOne(row, t) == row.deletion_date + 1 < t

\* find_by_past_deletion_date: `.filter(sends::deletion_date.lt(now))`
PastDeletionDate(row, t) == row.deletion_date < t

\* find_by_past_deletion_date: the rows selected, in table order, each Some(row)
find_by_past_deletion_date(t) ==
    SelectSeq([i \in 1..NumIds |-> store[i]],
              LAMBDA o : IsSome(o) /\ PastDeletionDate(Unwrap(o), t))

\* the rows of a table that belong to a user, in table order, each Some(row)
RowsOfUser(table, user) ==
    SelectSeq([i \in 1..NumIds |-> table[i]],
              LAMBDA o : IsSome(o) /\ Unwrap(o).user_uuid = Some(user))

\* find_by_user: `.filter(sends::user_uuid.eq(user_uuid))`
find_by_user(user) == RowsOfUser(store, user)

\* NumberOrString::into_i64: the number itself, or the string parsed
into_i64(v) == IF v[1] = "Number" THEN Some(v[2]) ELSE ParseI64(v[2])

\* size_by_user: serde_json::from_str::<FileData>(&send.data), which wants a
\* member "size" (alias "Size") that is a NumberOrString, and then into_i64
FileSize(data) ==
    IF data[1] \in {"size", "Size"} /\ data[2][1] \in {"Number", "String"}
    THEN into_i64(data[2])
    ELSE None

\* size_by_user: the loop over the sends; `total.checked_add(size)?`
RECURSIVE SumSizes(_, _)
SumSizes(sends, total) ==
    IF sends = <<>> THEN Some(total)
    ELSE LET send == Unwrap(Head(sends))
             size == IF send.atype = File THEN FileSize(send.data) ELSE None
         IN  IF size = None THEN SumSizes(Tail(sends), total)
             ELSE IF checked_add(total, Unwrap(size)) = None THEN None
             ELSE SumSizes(Tail(sends), Unwrap(checked_add(total, Unwrap(size))))

size_by_user(user) == SumSizes(find_by_user(user), I64(0))

\* the loop with `?` in place of `.ok()`: it stops at the first error
PurgeStopsAtError(r) == r = "Ok"

\* purge: `send.delete(conn).await.ok()` goes on whatever delete returned
PurgeContinues(r) == TRUE

\* The handler loads a record: find_by_uuid
Load(p, i) ==
    /\ pc[p] = "idle" /\ mem[p] = None
    /\ IsSome(find_by_uuid(i))
    /\ mem' = [mem EXCEPT ![p] = find_by_uuid(i)]
    /\ UNCHANGED <<now, store, blobs, pc, op, todo, log, result, swept, snap,
                   qnow, lastpw, input, issued>>

\* An accessor counts its access on its copy
Access(p) ==
    /\ Holding(p)
    /\ Unwrap(mem[p]).access_count < MaxAccess
    /\ mem' = [mem EXCEPT ![p] =
                 Some([Unwrap(mem[p]) EXCEPT !.access_count = @ + 1])]
    /\ UNCHANGED <<now, store, blobs, pc, op, todo, log, result, swept, snap,
                   qnow, lastpw, input, issued>>

\* The owner sets the optional fields of its copy
SetOptions(p, expiration_date, disabled) ==
    /\ Holding(p)
    /\ mem' = [mem EXCEPT ![p] =
                 Some([Unwrap(mem[p]) EXCEPT !.expiration_date = expiration_date,
                                             !.disabled = disabled])]
    /\ Unwrap(mem'[p]) # Unwrap(mem[p])
    /\ UNCHANGED <<now, store, blobs, pc, op, todo, log, result, swept, snap,
                   qnow, lastpw, input, issued>>

\* The owner sets the data of its copy
SetData(p, data) ==
    /\ Holding(p)
    /\ Unwrap(mem[p]).data # data
    /\ mem' = [mem EXCEPT ![p] = Some([Unwrap(mem[p]) EXCEPT !.data = data])]
    /\ UNCHANGED <<now, store, blobs, pc, op, todo, log, result, swept, snap,
                   qnow, lastpw, input, issued>>

\* The file of a stored File send is written to the blob store
Upload(i) ==
    /\ IsSome(store[i]) /\ Unwrap(store[i]).atype = File
    /\ i \notin blobs
    /\ blobs' = blobs \cup {i}
    /\ UNCHANGED <<now, store, pc, op, mem, todo, log, result, swept, snap,
                   qnow, lastpw, input, issued>>

\* save, up to the db_run: update_users_revision(conn).await, then
\* revision_date = Utc::now()
SaveBegin(p) ==
    /\ Holding(p)
    /\ op' = [op EXCEPT ![p] = "save"]
    /\ pc' = [pc EXCEPT ![p] = "save_replace"]
    /\ log' = [log EXCEPT ![p] =
                 Append(update_users_revision(Unwrap(mem[p])), "revise")]
    /\ mem' = [mem EXCEPT ![p] =
                 Some([Unwrap(mem[p]) EXCEPT !.revision_date = now])]
    /\ result' = [result EXCEPT ![p] = None]
    /\ UNCHANGED <<now, store, blobs, todo, swept, snap, qnow, lastpw, input,
                   issued>>

\* save that falls back to the update after every error of the replace
SaveReplaceFallsBackOnAnyError(p, outcome) ==
    /\ pc[p] = "save_replace"
    /\ LET s == Unwrap(mem[p]) IN
       CASE outcome = "Ok" ->
              /\ store' = [store EXCEPT ![s.uuid] = Some(s)]
              /\ log' = [log EXCEPT ![p] = Append(@, "replace:ok")]
              /\ result' = [result EXCEPT ![p] = Some("Ok")]
              /\ pc' = [pc EXCEPT ![p] = "save_done"]
         [] outcome = "ForeignKeyViolation" ->
              /\ IsSome(store[s.uuid]) \/ IsSome(s.user_uuid)
              /\ log' = [log EXCEPT ![p] = Append(@, "replace:fk")]
              /\ pc' = [pc EXCEPT ![p] = "save_update"]
              /\ UNCHANGED <<store, result>>
         [] outcome = "Err" ->
              /\ log' = [log EXCEPT ![p] = Append(@, "replace:err")]
              /\ pc' = [pc EXCEPT ![p] = "save_update"]
              /\ UNCHANGED <<store, result>>
    /\ UNCHANGED <<now, blobs, op, mem, todo, swept, snap, qnow, lastpw, input,
                   issued>>

\* save: diesel::replace_into(sends::table).values(self).  The store answers
\* Ok, a foreign key violation (the row exists and a row of another table
\* refers to it, or the owner this record names has no row), or another error.
SaveReplace(p, outcome) ==
    /\ pc[p] = "save_replace"
    /\ LET s == Unwrap(mem[p]) IN
       CASE outcome = "Ok" ->
              /\ store' = [store EXCEPT ![s.uuid] = Some(s)]
              /\ log' = [log EXCEPT ![p] = Append(@, "replace:ok")]
              /\ result' = [result EXCEPT ![p] = Some("Ok")]
              /\ pc' = [pc EXCEPT ![p] = "save_done"]
         [] outcome = "ForeignKeyViolation" ->
              /\ IsSome(store[s.uuid]) \/ IsSome(s.user_uuid)
              /\ log' = [log EXCEPT ![p] = Append(@, "replace:fk")]
              /\ pc' = [pc EXCEPT ![p] = "save_update"]
              /\ UNCHANGED <<store, result>>
         [] outcome = "Err" ->
              /\ log' = [log EXCEPT ![p] = Append(@, "replace:err")]
              /\ result' = [result EXCEPT ![p] = Some("Err")]
              /\ pc' = [pc EXCEPT ![p] = "save_done"]
              /\ UNCHANGED store
    /\ UNCHANGED <<now, blobs, op, mem, todo, swept, snap, qnow, lastpw, input,
                   issued>>

\* save whose fallback inserts the row when the update matches none
SaveUpdateUpserts(p, outcome) ==
    /\ pc[p] = "save_update"
    /\ LET s == Unwrap(mem[p]) IN
       CASE outcome = "Ok" ->
              /\ store' = [store EXCEPT ![s.uuid] = Some(s)]
              /\ log' = [log EXCEPT ![p] =
                           Append(@, IF IsSome(store[s.uuid])
                                     THEN "update:1" ELSE "update:0")]
              /\ result' = [result EXCEPT ![p] = Some("Ok")]
         [] outcome = "Err" ->
              /\ log' = [log EXCEPT ![p] = Append(@, "update:err")]
              /\ result' = [result EXCEPT ![p] = Some("Err")]
              /\ UNCHANGED store
    /\ pc' = [pc EXCEPT ![p] = "save_done"]
    /\ UNCHANGED <<now, blobs, op, mem, todo, swept, snap, qnow, lastpw, input,
                   issued>>

\* save, the fallback: diesel::update(sends::table).filter(uuid.eq(..)).set(self)
\* is Ok(n) with n the rows it matched, 0 included
SaveUpdate(p, outcome) ==
    /\ pc[p] = "save_update"
    /\ LET s == Unwrap(mem[p]) IN
       CASE outcome = "Ok" ->
              /\ store' = IF IsSome(store[s.uuid])
                          THEN [store EXCEPT ![s.uuid] = Some(s)]
                          ELSE store
              /\ log' = [log EXCEPT ![p] =
                           Append(@, IF IsSome(store[s.uuid])
                                     THEN "update:1" ELSE "update:0")]
              /\ result' = [result EXCEPT ![p] = Some("Ok")]
         [] outcome = "Err" ->
              /\ log' = [log EXCEPT ![p] = Append(@, "update:err")]
              /\ result' = [result EXCEPT ![p] = Some("Err")]
              /\ UNCHANGED store
    /\ pc' = [pc EXCEPT ![p] = "save_done"]
    /\ UNCHANGED <<now, blobs, op, mem, todo, swept, snap, qnow, lastpw, input,
                   issued>>

\* the loop with `.ok()` in place of `?`: it goes on after an error
DeleteAllIgnoresErrors(r) == TRUE

\* delete_all_by_user: `send.delete(conn).await?` goes on after Ok only
DeleteAllContinues(r) == r = "Ok"

\* delete returns r to its caller: to the handler, to the loop of purge,
\* which drops r and takes the next send, or to the loop of
\* delete_all_by_user, which returns an error at once
DeleteReturns(p, r) ==
    IF op[p] = "delete_all"
    THEN /\ swept' = [swept EXCEPT ![p] = Append(@, <<Unwrap(mem[p]).uuid, r>>)]
         /\ IF todo[p] # <<>> /\ DeleteAllContinues(r)
            THEN /\ mem' = [mem EXCEPT ![p] = Head(todo[p])]
                 /\ todo' = [todo EXCEPT ![p] = Tail(@)]
                 /\ pc' = [pc EXCEPT ![p] = "delete_notify"]
                 /\ UNCHANGED result
            ELSE /\ mem' = [mem EXCEPT ![p] = None]
                 /\ todo' = [todo EXCEPT ![p] = <<>>]
                 /\ pc' = [pc EXCEPT ![p] = "delete_all_done"]
                 /\ result' = [result EXCEPT ![p] =
                                 Some(IF DeleteAllContinues(r) THEN "Ok" ELSE r)]
    ELSE IF op[p] = "purge"
    THEN /\ swept' = [swept EXCEPT ![p] = Append(@, <<Unwrap(mem[p]).uuid, r>>)]
         /\ IF todo[p] # <<>> /\ PurgeContinues(r)
            THEN /\ mem' = [mem EXCEPT ![p] = Head(todo[p])]
                 /\ todo' = [todo EXCEPT ![p] = Tail(@)]
                 /\ pc' = [pc EXCEPT ![p] = "delete_notify"]
                 /\ UNCHANGED result
            ELSE /\ mem' = [mem EXCEPT ![p] = None]
                 /\ todo' = [todo EXCEPT ![p] = <<>>]
                 /\ pc' = [pc EXCEPT ![p] = "purge_done"]
                 /\ result' = [result EXCEPT ![p] = Some("unit")]
    ELSE /\ pc' = [pc EXCEPT ![p] = "delete_done"]
         /\ result' = [result EXCEPT ![p] = Some(r)]
         /\ UNCHANGED <<mem, todo, swept>>

\* delete, first await: update_users_revision
DeleteNotify(p) ==
    /\ \/ Holding(p) /\ op' = [op EXCEPT ![p] = "delete"]
       \/ pc[p] = "delete_notify" /\ UNCHANGED op
    /\ log' = [log EXCEPT ![p] = update_users_revision(Unwrap(mem[p]))]
    /\ pc' = [pc EXCEPT ![p] =
                IF NeedsBlobRemoval(Unwrap(mem[p])) THEN "delete_blobs"
                                                    ELSE "delete_row"]
    /\ UNCHANGED <<now, store, blobs, mem, todo, result, swept, snap, qnow,
                   lastpw, input, issued>>

\* delete of a File send: opendal_operator_for_path_type(..)? and then
\* operator.remove_all(&self.uuid).await.ok()
DeleteBlobs(p, outcome) ==
    /\ pc[p] = "delete_blobs"
    /\ LET i == Unwrap(mem[p]).uuid IN
       CASE outcome = "NoOperator" ->
              /\ log' = [log EXCEPT ![p] = Append(@, "operator:err")]
              /\ DeleteReturns(p, "Err")
              /\ UNCHANGED blobs
         [] outcome = "Removed" ->
              /\ blobs' = blobs \ {i}
              /\ log' = [log EXCEPT ![p] =
                           Append(@, IF i \in blobs THEN "remove_all:removed"
                                                    ELSE "remove_all:none")]
              /\ pc' = [pc EXCEPT ![p] = "delete_row"]
              /\ UNCHANGED <<mem, todo, result, swept>>
         [] outcome = "Failed" ->
              /\ log' = [log EXCEPT ![p] = Append(@, "remove_all:err")]
              /\ pc' = [pc EXCEPT ![p] = "delete_row"]
              /\ UNCHANGED <<blobs, mem, todo, result, swept>>
    /\ UNCHANGED <<now, store, op, snap, qnow, lastpw, input, issued>>

\* delete: diesel::delete(sends::table.filter(uuid.eq(..))), Ok(n) or an error
DeleteRow(p, outcome) ==
    /\ pc[p] = "delete_row"
    /\ LET i == Unwrap(mem[p]).uuid IN
       CASE outcome = "Ok" ->
              /\ store' = [store EXCEPT ![i] = None]
              /\ log' = [log EXCEPT ![p] =
                           Append(@, IF IsSome(store[i]) THEN "delete_row:removed"
                                                         ELSE "delete_row:none")]
              /\ DeleteReturns(p, "Ok")
         [] outcome = "Err" ->
              /\ log' = [log EXCEPT ![p] = Append(@, "delete_row:err")]
              /\ DeleteReturns(p, "Err")
              /\ UNCHANGED store
    /\ UNCHANGED <<now, blobs, op, snap, qnow, lastpw, input, issued>>

\* purge: find_by_past_deletion_date reads now and loads the rows (it panics
\* when the query fails), then the loop starts on the first of them
PurgeQuery(p, outcome) ==
    /\ pc[p] = "idle" /\ mem[p] = None
    /\ op' = [op EXCEPT ![p] = "purge"]
    /\ CASE outcome = "Loaded" ->
              LET rows == find_by_past_deletion_date(now) IN
              /\ snap' = [snap EXCEPT ![p] = Some(store)]
              /\ qnow' = [qnow EXCEPT ![p] = now]
              /\ IF rows = <<>>
                 THEN /\ pc' = [pc EXCEPT ![p] = "purge_done"]
                      /\ result' = [result EXCEPT ![p] = Some("unit")]
                      /\ UNCHANGED <<mem, todo>>
                 ELSE /\ pc' = [pc EXCEPT ![p] = "delete_notify"]
                      /\ mem' = [mem EXCEPT ![p] = Head(rows)]
                      /\ todo' = [todo EXCEPT ![p] = Tail(rows)]
                      /\ UNCHANGED result
         [] outcome = "Failed" ->
              /\ pc' = [pc EXCEPT ![p] = "panicked"]
              /\ UNCHANGED <<mem, todo, result, snap, qnow>>
    /\ UNCHANGED <<now, store, blobs, log, swept, lastpw, input, issued>>

\* delete_all_by_user: find_by_user loads the rows of the user (it panics
\* when the query fails), then the loop starts on the first of them
DeleteAllQuery(p, user, outcome) ==
    /\ pc[p] = "idle" /\ mem[p] = None
    /\ op' = [op EXCEPT ![p] = "delete_all"]
    /\ input' = [input EXCEPT ![p] = <<user>>]
    /\ CASE outcome = "Loaded" ->
              LET rows == find_by_user(user) IN
              /\ snap' = [snap EXCEPT ![p] = Some(store)]
              /\ IF rows = <<>>
                 THEN /\ pc' = [pc EXCEPT ![p] = "delete_all_done"]
                      /\ result' = [result EXCEPT ![p] = Some("Ok")]
                      /\ UNCHANGED <<mem, todo>>
                 ELSE /\ pc' = [pc EXCEPT ![p] = "delete_notify"]
                      /\ mem' = [mem EXCEPT ![p] = Head(rows)]
                      /\ todo' = [todo EXCEPT ![p] = Tail(rows)]
                      /\ UNCHANGED result
         [] outcome = "Failed" ->
              /\ pc' = [pc EXCEPT ![p] = "panicked"]
              /\ UNCHANGED <<mem, todo, result, snap>>
    /\ UNCHANGED <<now, store, blobs, log, swept, qnow, lastpw, issued>>

\* size_by_user: find_by_user loads the rows (it panics when the query
\* fails) and the sizes are summed; result[p] is the Option<i64> returned
SizeByUser(p, user, outcome) ==
    /\ pc[p] = "idle" /\ mem[p] = None
    /\ op' = [op EXCEPT ![p] = "size"]
    /\ input' = [input EXCEPT ![p] = <<user>>]
    /\ CASE outcome = "Loaded" ->
              /\ snap' = [snap EXCEPT ![p] = Some(store)]
              /\ result' = [result EXCEPT ![p] = Some(size_by_user(user))]
              /\ pc' = [pc EXCEPT ![p] = "size_done"]
         [] outcome = "Failed" ->
              /\ pc' = [pc EXCEPT ![p] = "panicked"]
              /\ UNCHANGED <<result, snap>>
    /\ UNCHANGED <<now, store, blobs, mem, todo, log, swept, qnow, lastpw, issued>>

(* find_by_access_id.  A character of an access id is its value in the     *)
(* base64url alphabet, 0..63, or NotInAlphabet ('=' included: the encoding *)
(* is unpadded).  A uuid is its 16 bytes; SendId strings are canonical, so *)
(* a SendId and the bytes of its uuid determine each other.                *)

NotInAlphabet == 64
UuidLen == 16

\* the uuid bytes of the SendId i
UuidBytes(i) == [k \in 1..UuidLen |-> IF k = UuidLen THEN i ELSE 17 * k]

\* the padded encoding: a rest of 1 or 2 bytes is filled up with '='
RECURSIVE Base64EncodePadded(_)
Base64EncodePadded(b) ==
    IF Len(b) = 0 THEN <<>>
    ELSE IF Len(b) = 1
         THEN <<b[1] \div 4, (b[1] % 4) * 16, NotInAlphabet, NotInAlphabet>>
    ELSE IF Len(b) = 2
         THEN <<b[1] \div 4, (b[1] % 4) * 16 + b[2] \div 16, (b[2] % 16) * 4,
                NotInAlphabet>>
    ELSE <<b[1] \div 4, (b[1] % 4) * 16 + b[2] \div 16,
           (b[2] % 16) * 4 + b[3] \div 64, b[3] % 64>>
             \o Base64EncodePadded(SubSeq(b, 4, Len(b)))

\* BASE64URL_NOPAD.encode: 3 bytes to 4 characters, a rest of 1 or 2 bytes to
\* 2 or 3 characters with the unused low bits zero
RECURSIVE Base64Encode(_)
Base64Encode(b) ==
    IF Len(b) = 0 THEN <<>>
    ELSE IF Len(b) = 1 THEN <<b[1] \div 4, (b[1] % 4) * 16>>
    ELSE IF Len(b) = 2
         THEN <<b[1] \div 4, (b[1] % 4) * 16 + b[2] \div 16, (b[2] % 16) * 4>>
    ELSE <<b[1] \div 4, (b[1] % 4) * 16 + b[2] \div 16,
           (b[2] % 16) * 4 + b[3] \div 64, b[3] % 64>>
             \o Base64Encode(SubSeq(b, 4, Len(b)))

\* BASE64URL_NOPAD.decode fails: a character outside the alphabet, a length
\* no encoding has, or non-zero trailing bits
Base64DecodeFails(a) ==
    \/ \E k \in 1..Len(a) : a[k] >= NotInAlphabet
    \/ Len(a) % 4 = 1
    \/ Len(a) % 4 = 2 /\ a[Len(a)] % 16 # 0
    \/ Len(a) % 4 = 3 /\ a[Len(a)] % 4 # 0

\* BASE64URL_NOPAD.decode, where it does not fail
RECURSIVE Base64Decode(_)
Base64Decode(a) ==
    IF Len(a) < 2 THEN <<>>
    ELSE IF Len(a) = 2 THEN <<a[1] * 4 + a[2] \div 16>>
    ELSE IF Len(a) = 3
         THEN <<a[1] * 4 + a[2] \div 16, (a[2] % 16) * 16 + a[3] \div 4>>
    ELSE <<a[1] * 4 + a[2] \div 16, (a[2] % 16) * 16 + a[3] \div 4,
           (a[3] % 4) * 64 + a[4]>>
             \o Base64Decode(SubSeq(a, 5, Len(a)))

\* Uuid::from_slice that takes the first 16 bytes of a longer slice
UuidFromLongerSlice(b) ==
    IF Len(b) >= UuidLen THEN Some(SubSeq(b, 1, UuidLen)) ELSE None

\* Uuid::from_slice: Ok for exactly 16 bytes
UuidFromSlice(b) == IF Len(b) = UuidLen THEN Some(b) ELSE None

\* find_by_uuid for the SendId of the uuid bytes u
FindByUuidBytes(u) ==
    IF \E i \in Ids : UuidBytes(i) = u
    THEN find_by_uuid(CHOOSE i \in Ids : UuidBytes(i) = u)
    ELSE None

\* find_by_access_id: result[p] is the Option<Send> returned
FindByAccessId(p, access_id) ==
    /\ pc[p] = "idle" /\ mem[p] = None
    /\ op' = [op EXCEPT ![p] = "find"]
    /\ pc' = [pc EXCEPT ![p] = "find_done"]
    /\ input' = [input EXCEPT ![p] = access_id]
    /\ IF Base64DecodeFails(access_id)
       THEN /\ result' = [result EXCEPT ![p] = Some(None)]
            /\ log' = [log EXCEPT ![p] = <<>>]
       ELSE LET uuid == UuidFromSlice(Base64Decode(access_id)) IN
            IF uuid = None
            THEN /\ result' = [result EXCEPT ![p] = Some(None)]
                 /\ log' = [log EXCEPT ![p] = <<>>]
            ELSE /\ result' = [result EXCEPT ![p] = Some(FindByUuidBytes(Unwrap(uuid)))]
                 /\ log' = [log EXCEPT ![p] = <<"find_by_uuid">>]
    /\ UNCHANGED <<now, store, blobs, mem, todo, swept, snap, qnow, lastpw, issued>>

(* to_json and to_json_access.  A JSON object is a record; an absent value *)
(* (null) is None.                                                         *)

\* util::format_date: the date as text
format_date(t) == <<"date", t>>

\* the `data` both views emit: the parsed data (the default when the text
\* is not JSON), its keys in lower camel case, and a size that is a number
\* turned into a string
JsonData(data) ==
    IF data = <<"invalid">> THEN NoSize
    ELSE IF data = NoSize THEN NoSize
    ELSE IF data[2][1] = "Number" THEN <<"size", <<"String", to_string(data[2][2])>>>>
    ELSE <<"size", data[2]>>

\* creator_identifier, with `user` what User::find_by_uuid returns
creator_identifier(s, user) ==
    IF s.hide_email = Some(TRUE) THEN None
    ELSE IF IsSome(s.user_uuid) /\ IsSome(user) THEN Some(Unwrap(user).email)
    ELSE None

to_json(s) ==
    [ id             |-> s.uuid,
      accessId       |-> Base64Encode(UuidBytes(s.uuid)),
      type           |-> s.atype,
      name           |-> s.name,
      notes          |-> s.notes,
      text           |-> IF s.atype = Text THEN Some(JsonData(s.data)) ELSE None,
      file           |-> IF s.atype = File THEN Some(JsonData(s.data)) ELSE None,
      key            |-> s.akey,
      maxAccessCount |-> s.max_access_count,
      accessCount    |-> s.access_count,
      password       |-> IF IsSome(s.password_hash)
                         THEN Some(<<"base64url", Unwrap(s.password_hash)>>)
                         ELSE None,
      disabled       |-> s.disabled,
      hideEmail      |-> s.hide_email,
      revisionDate   |-> format_date(s.revision_date),
      expirationDate |-> IF IsSome(s.expiration_date)
                         THEN Some(format_date(Unwrap(s.expiration_date)))
                         ELSE None,
      deletionDate   |-> format_date(s.deletion_date),
      object         |-> "send" ]

to_json_access(s, user) ==
    [ id                |-> s.uuid,
      type              |-> s.atype,
      name              |-> s.name,
      text              |-> IF s.atype = Text THEN Some(JsonData(s.data)) ELSE None,
      file              |-> IF s.atype = File THEN Some(JsonData(s.data)) ELSE None,
      expirationDate    |-> IF IsSome(s.expiration_date)
                            THEN Some(format_date(Unwrap(s.expiration_date)))
                            ELSE None,
      creatorIdentifier |-> creator_identifier(s, user),
      object            |-> "send-access" ]

\* The owner sets the access limit and the hide_email flag of its copy
SetLimits(p, max_access_count, hide_email) ==
    /\ Holding(p)
    /\ mem' = [mem EXCEPT ![p] =
                 Some([Unwrap(mem[p]) EXCEPT !.max_access_count = max_access_count,
                                             !.hide_email = hide_email])]
    /\ Unwrap(mem'[p]) # Unwrap(mem[p])
    /\ UNCHANGED <<now, store, blobs, pc, op, todo, log, result, swept, snap,
                   qnow, lastpw, input, issued>>

\* A handler renders both views of the send it holds: result[p] is
\* <<to_json, to_json_access>>, `user` the row of the owner if it is found
ToJson(p, user) ==
    /\ Holding(p)
    /\ op' = [op EXCEPT ![p] = "json"]
    /\ pc' = [pc EXCEPT ![p] = "json_done"]
    /\ result' = [result EXCEPT ![p] =
                    Some(<<to_json(Unwrap(mem[p])),
                           to_json_access(Unwrap(mem[p]), user)>>)]
    /\ UNCHANGED <<now, store, blobs, mem, todo, log, swept, snap, qnow, lastpw,
                   input, issued>>

\* The access ids tried: those of the SendIds and of one id no send has,
\* and each of them cut short, extended, with a character outside the
\* alphabet, with '=' appended, or with trailing bits set
GoodAccessIds == {Base64Encode(UuidBytes(i)) : i \in 1..(NumIds + 1)}
AccessIds ==
    GoodAccessIds
        \cup {SubSeq(a, 1, n) : a \in GoodAccessIds, n \in {0, 1, 2, 20, 21}}
        \cup {a \o x : a \in GoodAccessIds, x \in {<<0>>, <<0, 0>>, <<NotInAlphabet>>,
                                                    <<NotInAlphabet, NotInAlphabet>>}}
        \cup {[a EXCEPT ![1] = NotInAlphabet] : a \in GoodAccessIds}
        \cup {[a EXCEPT ![Len(a)] = @ + 1] : a \in GoodAccessIds}

\* The call has returned (or panicked) and the handler ends
Return(p) ==
    /\ pc[p] \in {"save_done", "delete_done", "purge_done", "find_done",
                 "size_done", "json_done", "hash_done", "verify_done",
                 "delete_all_done", "panicked"}
    /\ pc' = [pc EXCEPT ![p] = "idle"]
    /\ op' = [op EXCEPT ![p] = "none"]
    /\ mem' = [mem EXCEPT ![p] = None]
    /\ todo' = [todo EXCEPT ![p] = <<>>]
    /\ log' = [log EXCEPT ![p] = <<>>]
    /\ result' = [result EXCEPT ![p] = None]
    /\ swept' = [swept EXCEPT ![p] = <<>>]
    /\ snap' = [snap EXCEPT ![p] = None]
    /\ qnow' = [qnow EXCEPT ![p] = 0]
    /\ lastpw' = [lastpw EXCEPT ![p] = None]
    /\ input' = [input EXCEPT ![p] = <<>>]
    /\ UNCHANGED <<now, store, blobs, issued>>

Owners == {None} \cup {Some(u) : u \in Users}

Next ==
    \/ Tick
    \/ \E i \in Ids : Upload(i)
    \/ \E p \in Procs :
        \/ \E a \in {Text, File}, o \in Owners, d \in Times : New(p, a, o, d)
        \/ \E i \in Ids : Load(p, i)
        \/ Access(p)
        \/ \E e \in {None} \cup {Some(t) : t \in Times}, d \in BOOLEAN :
              SetOptions(p, e, d)
        \/ SaveBegin(p)
        \/ \E r \in {"Ok", "ForeignKeyViolation", "Err"} : SaveReplace(p, r)
        \/ \E r \in {"Ok", "Err"} : SaveUpdate(p, r)
        \/ DeleteNotify(p)
        \/ \E r \in {"NoOperator", "Removed", "Failed"} : DeleteBlobs(p, r)
        \/ \E r \in {"Ok", "Err"} : DeleteRow(p, r)
        \/ \E r \in {"Loaded", "Failed"} : PurgeQuery(p, r)
        \/ Return(p)

Spec == Init /\ [][Next]_vars

----------------------------------------------------------------------------
(* Sub-systems of Next, explored exhaustively: the same actions with the    *)
(* inputs each group of properties needs.                                  *)

\* Saves from in-memory copies, interleaved: accessors and owners
NextSave ==
    \/ Tick
    \/ \E p \in Procs :
        \/ \E o \in Owners : New(p, Text, o, MaxTime)
        \/ \E i \in Ids : Load(p, i)
        \/ Access(p)
        \/ SaveBegin(p)
        \/ \E r \in {"Ok", "ForeignKeyViolation", "Err"} : SaveReplace(p, r)
        \/ \E r \in {"Ok", "Err"} : SaveUpdate(p, r)
        \/ Return(p)

SpecSave == Init /\ [][NextSave]_vars

\* The periodic sweep is the first handler; the others serve requests
Sweeper == CHOOSE p \in Procs : \A q \in Procs : p <= q
Handlers == Procs \ {Sweeper}

\* Deletes of stored Text and File sends, with and without a user owner,
\* with every answer of the table and of the blob store
NextDelete ==
    \/ \E i \in Ids : Upload(i)
    \/ \E p \in Handlers :
        \/ \E a \in {Text, File}, o \in Owners : New(p, a, o, MaxTime)
        \/ \E i \in Ids : Load(p, i)
        \/ SaveBegin(p)
        \/ SaveReplace(p, "Ok")
        \/ DeleteNotify(p)
        \/ \E r \in {"NoOperator", "Removed", "Failed"} : DeleteBlobs(p, r)
        \/ \E r \in {"Ok", "Err"} : DeleteRow(p, r)
        \/ Return(p)

SpecDelete == Init /\ [][NextDelete]_vars

\* The sweep beside handlers that create and save sends
NextPurge ==
    \/ Tick
    \/ \E i \in Ids : Upload(i)
    \/ \E r \in {"Loaded", "Failed"} : PurgeQuery(Sweeper, r)
    \/ DeleteNotify(Sweeper) /\ op[Sweeper] = "purge"
    \/ \E r \in {"NoOperator", "Removed", "Failed"} : DeleteBlobs(Sweeper, r)
    \/ \E r \in {"Ok", "Err"} : DeleteRow(Sweeper, r)
    \/ Return(Sweeper)
    \/ \E p \in Handlers :
        \/ \E a \in {Text, File}, d \in Times : New(p, a, None, d)
        \/ SetOptions(p, Some(0), TRUE)
        \/ Access(p)
        \/ SaveBegin(p)
        \/ SaveReplace(p, "Ok")
        \/ Return(p)

SpecPurge == Init /\ [][NextPurge]_vars

\* Sweep after sweep, beside handlers that create sends and save each once
NextPurgeLive ==
    \/ Tick
    \/ \E r \in {"Loaded", "Failed"} : PurgeQuery(Sweeper, r)
    \/ DeleteNotify(Sweeper) /\ op[Sweeper] = "purge"
    \/ \E r \in {"NoOperator", "Removed", "Failed"} : DeleteBlobs(Sweeper, r)
    \/ \E r \in {"Ok", "Err"} : DeleteRow(Sweeper, r)
    \/ Return(Sweeper)
    \/ \E p \in Handlers :
        \/ \E a \in {Text, File}, d \in Times : New(p, a, None, d)
        \/ SaveBegin(p)
        \/ SaveReplace(p, "Ok")
        \/ Return(p)

\* the sweeper is deleting the send i
Deleting(i) == IsSome(mem[Sweeper]) /\ Unwrap(mem[Sweeper]).uuid = i

\* The scheduler starts sweep after sweep and each runs to its end; the
\* query, the blob store and the row removal do not fail for ever on a send
PurgeFairness ==
    /\ SF_vars(PurgeQuery(Sweeper, "Loaded"))
    /\ WF_vars(DeleteNotify(Sweeper) /\ op[Sweeper] = "purge")
    /\ WF_vars(Return(Sweeper))
    /\ \A i \in Ids :
          /\ SF_vars(Deleting(i) /\ \E r \in {"Removed", "Failed"} :
                                      DeleteBlobs(Sweeper, r))
          /\ SF_vars(Deleting(i) /\ DeleteRow(Sweeper, "Ok"))

SpecPurgeLive == Init /\ [][NextPurgeLive]_vars /\ PurgeFairness

\* Saves from copies beside deletes and sweeps of the same sends
NextResave ==
    \/ Tick
    \/ \E p \in Procs :
        \/ \E o \in Owners : New(p, Text, o, 0)
        \/ \E i \in Ids : Load(p, i)
        \/ SaveBegin(p)
        \/ \E r \in {"Ok", "ForeignKeyViolation", "Err"} : SaveReplace(p, r)
        \/ \E r \in {"Ok", "Err"} : SaveUpdate(p, r)
        \/ PurgeQuery(p, "Loaded")
        \/ DeleteNotify(p)
        \/ \E r \in {"Ok", "Err"} : DeleteRow(p, r)
        \/ Return(p)

SpecResave == Init /\ [][NextResave]_vars

\* Saves and deletes of sends with and without a user owner, with every
\* answer of the table and of the blob store
NextNotify ==
    \/ Tick
    \/ \E p \in Handlers :
        \/ \E a \in {Text, File}, o \in Owners : New(p, a, o, MaxTime)
        \/ \E i \in Ids : Load(p, i)
        \/ SaveBegin(p)
        \/ \E r \in {"Ok", "ForeignKeyViolation", "Err"} : SaveReplace(p, r)
        \/ \E r \in {"Ok", "Err"} : SaveUpdate(p, r)
        \/ DeleteNotify(p)
        \/ \E r \in {"NoOperator", "Removed", "Failed"} : DeleteBlobs(p, r)
        \/ \E r \in {"Ok", "Err"} : DeleteRow(p, r)
        \/ Return(p)

SpecNotify == Init /\ [][NextNotify]_vars

\* The sends of a user are deleted (by the first handler) beside handlers
\* that create and save sends
NextDeleteAll ==
    \/ \E i \in Ids : Upload(i)
    \/ \E u \in Users, r \in {"Loaded", "Failed"} : DeleteAllQuery(Sweeper, u, r)
    \/ DeleteNotify(Sweeper) /\ op[Sweeper] = "delete_all"
    \/ \E r \in {"NoOperator", "Removed", "Failed"} : DeleteBlobs(Sweeper, r)
    \/ \E r \in {"Ok", "Err"} : DeleteRow(Sweeper, r)
    \/ Return(Sweeper)
    \/ \E p \in Handlers :
        \/ \E a \in {Text, File}, o \in Owners : New(p, a, o, MaxTime)
        \/ SaveBegin(p)
        \/ SaveReplace(p, "Ok")
        \/ Return(p)

SpecDeleteAll == Init /\ [][NextDeleteAll]_vars

NextAccessId ==
    \E p \in Procs :
        \/ \E o \in Owners : New(p, Text, o, MaxTime)
        \/ SaveBegin(p)
        \/ SaveReplace(p, "Ok")
        \/ Return(p)
        \/ \E a \in AccessIds : FindByAccessId(p, a)

SpecAccessId == Init /\ [][NextAccessId]_vars

\* The data a send is given: sizes as numbers and as strings, the largest
\* i64 in both forms, a string one past it, a negative size, and data that
\* declare no size
MaxDigits == <<9, 2, 2, 3, 3, 7, 2, 0, 3, 6, 8, 5, 4, 7, 7, 5, 8, 0, 7>>
PastMaxDigits == <<9, 2, 2, 3, 3, 7, 2, 0, 3, 6, 8, 5, 4, 7, 7, 5, 8, 0, 8>>
Datas ==
    { <<"size", <<"Number", I64(10)>>>>,
      <<"size", <<"String", <<3, 0>>>>>>,
      <<"size", <<"Number", I64_MAX>>>>,
      <<"Size", <<"String", MaxDigits>>>>,
      <<"size", <<"String", PastMaxDigits>>>>,
      <<"size", <<"Number", I64(-1)>>>>,
      <<"size", <<"String", <<Letter>>>>>>,
      <<"size", <<"Other">>>>,
      <<"invalid">> }

\* Sizes summed beside handlers that create sends and change their data
NextSize ==
    \E p \in Procs :
        \/ \E a \in {Text, File}, o \in Owners : New(p, a, o, MaxTime)
        \/ \E d \in Datas : SetData(p, d)
        \/ SaveBegin(p)
        \/ SaveReplace(p, "Ok")
        \/ Return(p)
        \/ \E u \in Users, r \in {"Loaded", "Failed"} : SizeByUser(p, u, r)

SpecSize == Init /\ [][NextSize]_vars

\* Both views of sends of every kind, with and without owner, password,
\* limits and size
NextJson ==
    \E p \in Handlers :
        \/ \E a \in {Text, File}, o \in Owners : New(p, a, o, MaxTime)
        \/ \E d \in {<<"Size", <<"Number", I64(-10)>>>>, <<"invalid">>} : SetData(p, d)
        \/ SetOptions(p, Some(0), TRUE)
        \/ \E m \in {None, Some(1)}, h \in {None, Some(TRUE), Some(FALSE)} :
              SetLimits(p, m, h)
        \/ \E pw \in Passwords, salt \in Salts : SetPassword(p, Some(pw), salt)
        \/ \E u \in {None, Some([email |-> "email"])} : ToJson(p, u)
        \/ Return(p)

SpecJson == Init /\ [][NextJson]_vars

\* The cost parameters tried: zero and the ones set_password uses, and one
\* more count of iterations
Iterations == {0, 1, PASSWORD_ITER}
Memories == {0, PASSWORD_MEM}
Parallelisms == {0, PASSWORD_PARA}

\* digests of both algorithms, to verify against
Digests ==
    {<<"pbkdf2", s, 1, i>> : s \in {"p1", "p2"}, i \in Iterations \ {0}}
      \cup {<<"argon2id", s, 1, i, PASSWORD_MEM, PASSWORD_PARA>> :
               s \in {"p1", "p2"}, i \in Iterations \ {0}}

NextCrypto ==
    \E p \in Handlers :
        \/ \E s \in {"p1", "p2"}, salt \in Salts, i \in Iterations, m \in Memories,
              par \in Parallelisms : HashPassword(p, s, salt, i, m, par)
        \/ \E s \in {"p1", "p2"}, salt \in Salts, prev \in Digests, i \in Iterations,
              m \in Memories, par \in Parallelisms :
                  VerifyPasswordHash(p, s, salt, prev, i, m, par)
        \/ Return(p)

SpecCrypto == Init /\ [][NextCrypto]_vars

\* Sends with a PBKDF2 password: checked, saved, loaded and given a new
\* password
LegacyIterations == {100000}

NextLegacy ==
    \E p \in Procs :
        \/ \E pw \in {"p1"}, salt \in {1}, i \in LegacyIterations :
              LegacySend(p, pw, salt, i)
        \/ \E i \in Ids : Load(p, i)
        \/ \E pw \in {None, Some("p1"), Some("p2")}, salt \in Salts :
              SetPassword(p, pw, salt)
        \/ \E pw \in {"p1", "p2"} : CheckPassword(p, pw)
        \/ SaveBegin(p)
        \/ SaveReplace(p, "Ok")
        \/ Return(p)

SpecLegacy == Init /\ [][NextLegacy]_vars

NextPw ==
    \E p \in Procs :
        \/ New(p, Text, None, MaxTime)
        \/ Drop(p)
        \/ \E pw \in {None} \cup {Some(x) : x \in Passwords}, salt \in Salts :
              SetPassword(p, pw, salt)
        \/ \E pw \in Passwords : CheckPassword(p, pw)

SpecPw == Init /\ [][NextPw]_vars

----------------------------------------------------------------------------
(* C1: in every state reached from Send::new by set_password calls, the    *)
(* five password fields of a record are all present or all absent.         *)
PasswordAllOrNothing ==
    \A p \in Procs :
        IsSome(mem[p]) =>
            LET s == Unwrap(mem[p]) IN
            \/ AllPasswordFields(s)
            \/ /\ s.password_hash = None /\ s.password_salt = None
               /\ s.password_iter = None /\ s.password_mem = None
               /\ s.password_para = None

\* a record whose password was set and then cleared again
PasswordSetThenCleared ==
    \E p \in Procs :
        /\ IsSome(mem[p])
        /\ lastpw[p] = Some(None)
        /\ Unwrap(mem[p]).password_hash = None
        /\ \E q \in Procs : IsSome(mem[q]) /\ AllPasswordFields(Unwrap(mem[q]))

(* C2: check_password answers true exactly for the password of the most    *)
(* recent set_password(Some(p)), and false for every candidate after       *)
(* set_password(None).                                                     *)
CheckFollowsLastSet ==
    \A p \in Procs :
        (IsSome(mem[p]) /\ IsSome(lastpw[p]) /\ IsSome(result[p])) =>
            Unwrap(result[p])[2] = (Unwrap(lastpw[p]) = Some(Unwrap(result[p])[1]))

\* both answers seen: the right password accepted, a wrong one refused
CheckAcceptedAndRefused ==
    \E p, q \in Procs :
        /\ IsSome(mem[p]) /\ IsSome(result[p]) /\ IsSome(lastpw[p])
        /\ Unwrap(result[p])[2] = TRUE
        /\ IsSome(mem[q]) /\ IsSome(result[q]) /\ IsSome(lastpw[q])
        /\ Unwrap(lastpw[q]) # None
        /\ Unwrap(result[q])[2] = FALSE

----------------------------------------------------------------------------
(* Purge *)

\* what the sweep of p read: the rows of its snapshot, and among them the ids
\* whose deletion_date is strictly before the `now` it read
SnapRow(p, i) == Unwrap(snap[p])[i]
StrictlyPast(p) ==
    {i \in Ids : IsSome(SnapRow(p, i)) /\ Unwrap(SnapRow(p, i)).deletion_date < qnow[p]}
SweptIds(p) == {swept[p][k][1] : k \in 1..Len(swept[p])}
PendingIds(p) ==
    (IF IsSome(mem[p]) THEN {Unwrap(mem[p]).uuid} ELSE {})
        \cup {Unwrap(todo[p][k]).uuid : k \in 1..Len(todo[p])}
AllSucceeded(p) == \A k \in 1..Len(swept[p]) : swept[p][k][2] = "Ok"
Sweeping(p) == op[p] = "purge" /\ IsSome(snap[p])

\* while every delete so far succeeded, the sends deleted and still to delete
\* are exactly those strictly past; at the end all of them have been deleted
PurgeSweepsStrictlyPast ==
    \A p \in Procs :
        (Sweeping(p) /\ AllSucceeded(p)) =>
            /\ SweptIds(p) \cup PendingIds(p) = StrictlyPast(p)
            /\ SweptIds(p) \cap PendingIds(p) = {}
            /\ pc[p] = "purge_done" => SweptIds(p) = StrictlyPast(p)

\* a step of the sweep changes the sends table only by removing the row of a
\* send strictly past, and a delete that returned Ok has removed the row
PurgeRemovesOnlyStrictlyPast ==
    \A p \in Procs :
        (Sweeping(p) /\ pc'[p] # pc[p]) =>
            /\ \/ store' = store
               \/ \E i \in StrictlyPast(p) : store' = [store EXCEPT ![i] = None]
            /\ (Len(swept'[p]) > Len(swept[p]) /\ Last(swept'[p])[2] = "Ok") =>
                   store'[Last(swept'[p])[1]] = None

(* C3: when all deletes succeed, a sweep removes exactly the rows whose    *)
(* deletion_date is strictly earlier than the now it read; it touches no   *)
(* other row, whatever its expiration_date, disabled flag or counters.     *)
PurgeSelection ==
    []PurgeSweepsStrictlyPast /\ [][PurgeRemovesOnlyStrictlyPast]_vars

\* a finished sweep that removed a send strictly past and left one whose
\* deletion_date is the now it read
PurgeRemovedPastKeptPresent ==
    \E p \in Procs :
        /\ Sweeping(p) /\ pc[p] = "purge_done" /\ AllSucceeded(p)
        /\ \E i, j \in Ids :
              /\ i \in SweptIds(p) /\ store[i] = None
              /\ IsSome(SnapRow(p, j))
              /\ Unwrap(SnapRow(p, j)).deletion_date = qnow[p]
              /\ Unwrap(SnapRow(p, j)).expiration_date = Some(0)
              /\ Unwrap(SnapRow(p, j)).disabled
              /\ Unwrap(SnapRow(p, j)).access_count > 0
              /\ store[j] = SnapRow(p, j)

\* the ids of the sweep in the order of the loop
SweptSeq(p) == [k \in 1..Len(swept[p]) |-> swept[p][k][1]]
PendingSeq(p) ==
    (IF IsSome(mem[p]) THEN <<Unwrap(mem[p]).uuid>> ELSE <<>>)
        \o [k \in 1..Len(todo[p]) |-> Unwrap(todo[p][k]).uuid]
StrictlyPastSeq(p) ==
    SelectSeq([i \in 1..NumIds |-> i], LAMBDA i : i \in StrictlyPast(p))

\* every send the query returned is deleted in turn whatever the earlier
\* deletes returned, and purge returns () to its caller
PurgeAttemptsAll ==
    \A p \in Procs :
        Sweeping(p) =>
            /\ SweptSeq(p) \o PendingSeq(p) = StrictlyPastSeq(p)
            /\ pc[p] = "purge_done" =>
                  /\ SweptSeq(p) = StrictlyPastSeq(p)
                  /\ result[p] = Some("unit")

\* the last delete of the sweep of p has returned an error
LastDeleteFailed(p) ==
    /\ op[p] = "purge" /\ pc[p] \in {"delete_notify", "purge_done"}
    /\ swept[p] # <<>> /\ Last(swept[p])[2] = "Err"

InLog(p, e) == \E k \in 1..Len(log[p]) : log[p][k] = e

\* a delete that returned an error has left the sends table as it was
FailedDeleteKeepsRow ==
    \A p \in Procs :
        (op[p] = "purge" /\ Len(swept'[p]) > Len(swept[p])
            /\ Last(swept'[p])[2] = "Err") =>
            store' = store

(* C4 as amended: delete is attempted on every send the query returned     *)
(* whatever the earlier deletes returned, a failed delete leaves that      *)
(* send's row in the table and does not stop the loop, and purge reports   *)
(* no error; the blobs of a File send may be gone when its delete fails.   *)
PurgeContinuesOnError ==
    []PurgeAttemptsAll /\ [][FailedDeleteKeepsRow]_vars

\* a finished sweep whose first delete failed and whose second succeeded
PurgeWentOnAfterFailure ==
    \E p \in Procs :
        /\ op[p] = "purge" /\ pc[p] = "purge_done"
        /\ Len(swept[p]) = 2
        /\ swept[p][1][2] = "Err" /\ swept[p][2][2] = "Ok"
        /\ IsSome(store[swept[p][1][1]])

(* C4 as stated: the same, and a failed delete removes nothing of that     *)
(* send, neither its row nor its blobs.                                    *)
PurgeFailedDeleteRemovesNothing ==
    /\ PurgeAttemptsAll
    /\ \A p \in Procs :
          LastDeleteFailed(p) =>
              /\ ~InLog(p, "delete_row:removed")
              /\ ~InLog(p, "remove_all:removed")

----------------------------------------------------------------------------
(* Delete *)

RowEvents == {"delete_row:removed", "delete_row:none", "delete_row:err"}
BlobEvents == {"remove_all:removed", "remove_all:none", "remove_all:err"}
PersistEvents == {"replace:ok", "replace:fk", "replace:err",
                  "update:1", "update:0", "update:err"}

(* C5: in delete of a File send every failure of the blob removal, the     *)
(* failure to obtain the operator included, is swallowed: delete goes on   *)
(* to remove the row and returns what the row removal returned.            *)
DeleteSwallowsBlobFailures ==
    \A p \in Procs :
        (op[p] = "delete" /\ pc[p] = "delete_done"
            /\ Unwrap(mem[p]).atype = File) =>
            /\ \E k \in 1..Len(log[p]) : log[p][k] \in RowEvents
            /\ result[p] = Some(IF Last(log[p]) = "delete_row:err" THEN "Err" ELSE "Ok")

\* the events of log[p] after the notification of a user owner
AfterNotify(p) ==
    IF IsSome(Unwrap(mem[p]).user_uuid) THEN Tail(log[p]) ELSE log[p]

Precedes(q, A, B) ==
    \A k \in 1..Len(q) : q[k] \in B => \E j \in 1..(k - 1) : q[j] \in A

----------------------------------------------------------------------------
(* Save *)

\* the step in which the save of p returns
SaveReturns(p) == pc[p] \in {"save_replace", "save_update"} /\ pc'[p] = "save_done"

(* C6: when save returns Ok the table holds the row of the record's id and *)
(* it equals the in-memory record; when save returns Err the row of that   *)
(* id is as it was.  Save never returns Ok with no row of the id.          *)
SaveUpsertsOrFails ==
    [][\A p \in Procs :
          SaveReturns(p) =>
              LET s == Unwrap(mem'[p]) IN
              IF result'[p] = Some("Ok")
              THEN store'[s.uuid] = Some(s)
              ELSE store'[s.uuid] = store[s.uuid]]_vars

StoredAccessCountNeverDecreases ==
    [][\A i \in Ids :
          (IsSome(store[i]) /\ IsSome(store'[i])) =>
              Unwrap(store'[i]).access_count >= Unwrap(store[i]).access_count]_vars

----------------------------------------------------------------------------
(* Access ids *)

\* an access id is the unpadded base64url text of 16 bytes: 22 characters
\* of the alphabet, the last one carrying 2 bits and 4 zero bits
WellFormedAccessId(a) ==
    /\ Len(a) = 22
    /\ \A k \in 1..22 : a[k] \in 0..63
    /\ a[22] % 16 = 0

(* C10: find_by_access_id returns None for every malformed access id,      *)
(* without querying the store; it returns None or a stored record and      *)
(* nothing else, so a malformed id and the well-formed id of a record that *)
(* does not exist give the same answer.                                    *)
MalformedAccessIdIsNotFound ==
    \A p \in Procs :
        (op[p] = "find" /\ pc[p] = "find_done") =>
            /\ IsSome(result[p])
            /\ ~WellFormedAccessId(input[p]) =>
                  (result[p] = Some(None) /\ log[p] = <<>>)
            /\ WellFormedAccessId(input[p]) => log[p] = <<"find_by_uuid">>
            /\ \/ result[p] = Some(None)
               \/ \E i \in issued :
                     /\ Unwrap(Unwrap(result[p])).uuid = i
                     /\ Base64Encode(UuidBytes(i)) = input[p]

\* a malformed id answered None without a query, beside a well-formed id of
\* no record answered None too, while a send is stored
MalformedAndUnknownBothNone ==
    \E p, q \in Procs :
        /\ op[p] = "find" /\ pc[p] = "find_done"
        /\ Len(input[p]) = 24 /\ ~WellFormedAccessId(input[p])
        /\ result[p] = Some(None) /\ log[p] = <<>>
        /\ op[q] = "find" /\ pc[q] = "find_done"
        /\ WellFormedAccessId(input[q])
        /\ result[q] = Some(None) /\ log[q] = <<"find_by_uuid">>
        /\ \E i \in Ids : IsSome(store[i])

----------------------------------------------------------------------------
(* Sizes *)

\* the sizes the File sends of a user declare in a table, in table order
DeclaredSizes(table, user) ==
    LET files == SelectSeq(RowsOfUser(table, user),
                           LAMBDA o : /\ Unwrap(o).atype = File
                                      /\ IsSome(FileSize(Unwrap(o).data)))
    IN  [k \in 1..Len(files) |-> Unwrap(FileSize(Unwrap(files[k]).data))]

\* the exact sum of the first k of them
RECURSIVE PrefixSum(_, _)
PrefixSum(sizes, k) ==
    IF k = 0 THEN <<0, 0, 0>> ELSE ExactSum(PrefixSum(sizes, k - 1), sizes[k])

(* C11: size_by_user returns the sum of the sizes the File sends of the     *)
(* user declare, as numbers or as numeric strings; sends of other kinds and *)
(* of other owners add nothing.  When a partial sum leaves the range of     *)
(* i64 it returns None, never a wrapped or a partial total.                *)
SizeByUserSumsOrOverflows ==
    \A p \in Procs :
        (op[p] = "size" /\ pc[p] = "size_done") =>
            LET sizes == DeclaredSizes(Unwrap(snap[p]), input[p][1])
            IN  /\ IsSome(result[p])
                /\ IF \E k \in 1..Len(sizes) : ~InI64(PrefixSum(sizes, k))
                   THEN Unwrap(result[p]) = None
                   ELSE Unwrap(result[p]) = Some(PrefixSum(sizes, Len(sizes)))

\* the largest i64, declared as a string, and 10, declared as a number,
\* were summed: overflow
SizeOverflowed ==
    \E p \in Procs :
        /\ op[p] = "size" /\ pc[p] = "size_done"
        /\ result[p] = Some(None)
        /\ \E i, j \in Ids :
              /\ Unwrap(Unwrap(snap[p])[i]).data = <<"Size", <<"String", MaxDigits>>>>
              /\ Unwrap(Unwrap(snap[p])[j]).data = <<"size", <<"Number", I64(10)>>>>
        /\ DeclaredSizes(Unwrap(snap[p]), input[p][1]) = <<I64_MAX, I64(10)>>

----------------------------------------------------------------------------
(* Views *)

InternalOnly == {"maxAccessCount", "disabled", "id", "password", "accessCount", "key"}

(* C12: the recipient view (to_json_access) holds none of the internal-only *)
(* fields: the access limit, the disabled flag, the raw id, the password    *)
(* hash, the access count, the key; and every field it shares with the      *)
(* owner view (to_json) has the same value there.                          *)
RecipientViewOmitsInternals ==
    \A p \in Procs :
        (op[p] = "json" /\ pc[p] = "json_done") =>
            LET owner == Unwrap(result[p])[1]
                access == Unwrap(result[p])[2]
            IN  /\ DOMAIN access \cap InternalOnly = {}
                /\ \A k \in (DOMAIN access \cap DOMAIN owner) \ {"object"} :
                      access[k] = owner[k]

----------------------------------------------------------------------------
(* Hashing *)

\* a call of hash_password or verify_password_hash that has ended
Called(p) == op[p] \in {"hash", "verify"} /\ pc[p] # "idle"

(* C13: hash_password and verify_password_hash choose the algorithm alike:  *)
(* PBKDF2 iff memory = 0 and parallelism = 0, Argon2id otherwise.  Both     *)
(* panic, and return neither a digest nor a bool, when iterations = 0 and   *)
(* when exactly one of memory and parallelism is 0.                         *)
HashAndVerifyChooseAlike ==
    \A p \in Procs :
        Called(p) =>
            LET iterations == input[p][3]
                memory == input[p][4]
                parallelism == input[p][5]
                fatal == iterations = 0 \/ (memory = 0) # (parallelism = 0)
                legacy == memory = 0 /\ parallelism = 0
            IN  /\ fatal <=> pc[p] = "panicked"
                /\ fatal => result[p] = None
                /\ (~fatal /\ op[p] = "hash") =>
                      /\ pc[p] = "hash_done"
                      /\ Unwrap(result[p])[1] = (IF legacy THEN "pbkdf2" ELSE "argon2id")
                /\ (~fatal /\ op[p] = "verify") =>
                      /\ pc[p] = "verify_done"
                      /\ log[p] = (IF legacy THEN <<"pbkdf2::verify">>
                                            ELSE <<"verify_raw">>)
                      /\ Unwrap(result[p]) \in BOOLEAN
                      /\ Unwrap(result[p]) =>
                            input[p][6][1] = (IF legacy THEN "pbkdf2" ELSE "argon2id")

\* verify_password_hash panicked with parallelism alone zero
VerifyPanickedOnOneZero ==
    \E p \in Procs :
        /\ op[p] = "verify" /\ pc[p] = "panicked"
        /\ input[p][3] > 0 /\ input[p][4] > 0 /\ input[p][5] = 0

----------------------------------------------------------------------------
(* Save: the fallback *)

\* the calls save has made to the table
Persisted(p) ==
    SelectSeq(log[p], LAMBDA e : e \in PersistEvents)

SaveProtocol ==
    \A p \in Procs :
        (op[p] = "save" /\ pc[p] # "idle") =>
            \/ pc[p] = "save_replace" /\ Persisted(p) = <<>>
            \/ pc[p] = "save_update" /\ Persisted(p) = <<"replace:fk">>
            \/ /\ pc[p] = "save_done"
               /\ \/ Persisted(p) = <<"replace:ok">> /\ result[p] = Some("Ok")
                  \/ Persisted(p) = <<"replace:err">> /\ result[p] = Some("Err")
                  \/ /\ Persisted(p) \in {<<"replace:fk", "update:1">>,
                                           <<"replace:fk", "update:0">>}
                     /\ result[p] = Some("Ok")
                  \/ /\ Persisted(p) = <<"replace:fk", "update:err">>
                     /\ result[p] = Some("Err")

\* the fallback writes the row of the record's id, where it is, and no other
FallbackUpdatesInPlace ==
    \A p \in Procs :
        (pc[p] = "save_update" /\ pc'[p] = "save_done") =>
            LET s == Unwrap(mem[p]) IN
            /\ \A i \in Ids \ {s.uuid} : store'[i] = store[i]
            /\ store'[s.uuid] = (IF Last(log'[p]) = "update:1" THEN Some(s)
                                                               ELSE store[s.uuid])
            /\ Last(log'[p]) = "update:1" => IsSome(store[s.uuid])

(* C14: save first attempts the replace; only a foreign key violation of    *)
(* the replace leads to the update of the row with the same id, and what    *)
(* the update returns is what save returns; any other error of the replace  *)
(* is returned as it is, with no fallback and no second attempt.            *)
SaveFallsBackOnForeignKeyOnly ==
    []SaveProtocol /\ [][FallbackUpdatesInPlace]_vars

\* one save fell back to the update and returned Ok, another returned the
\* error of its replace
SaveFellBackAndSaveFailed ==
    \E p, q \in Procs :
        /\ pc[p] = "save_done" /\ result[p] = Some("Ok")
        /\ Persisted(p) = <<"replace:fk", "update:1">>
        /\ store[Unwrap(mem[p]).uuid] = mem[p]
        /\ pc[q] = "save_done" /\ result[q] = Some("Err")
        /\ Persisted(q) = <<"replace:err">>

----------------------------------------------------------------------------
(* Passwords of earlier versions *)

PasswordFields(s) ==
    <<s.password_hash, s.password_salt, s.password_iter, s.password_mem,
      s.password_para>>

Legacy(s) ==
    /\ AllPasswordFields(s)
    /\ Unwrap(s.password_mem) = 0 /\ Unwrap(s.password_para) = 0
    /\ Unwrap(s.password_iter) > 0

Modern(s) ==
    /\ AllPasswordFields(s)
    /\ s.password_iter = Some(2)
    /\ s.password_mem = Some(1048576)
    /\ s.password_para = Some(8)
    /\ Unwrap(s.password_hash)[1] = "argon2id"

\* a record with PBKDF2 costs is checked with PBKDF2; a record whose
\* password was set holds the Argon2id costs 2, 1048576 and 8
LegacyCheckedModernSet ==
    \A p \in Procs :
        IsSome(mem[p]) =>
            LET s == Unwrap(mem[p]) IN
            /\ (Legacy(s) /\ IsSome(result[p]) /\ op[p] = "none") =>
                  Unwrap(result[p])[2] =
                      (Unwrap(s.password_hash) =
                          <<"pbkdf2", Unwrap(result[p])[1], Unwrap(s.password_salt),
                            Unwrap(s.password_iter)>>)
            /\ (IsSome(lastpw[p]) /\ IsSome(Unwrap(lastpw[p]))) =>
                  Modern(s) /\ ~Legacy(s)
            /\ (IsSome(lastpw[p]) /\ Unwrap(lastpw[p]) = None) =>
                  PasswordFields(s) = <<None, None, None, None, None>>

\* a record's password fields change in a call of set_password and in no
\* other; a row's change when a save writes them as the record holds them
OnlySetPasswordChanges ==
    /\ \A p \in Procs :
          (IsSome(mem[p]) /\ IsSome(mem'[p])
              /\ PasswordFields(Unwrap(mem'[p])) # PasswordFields(Unwrap(mem[p]))) =>
                  /\ pc[p] = "idle"
                  /\ lastpw'[p] # None
                  /\ UNCHANGED <<store, op, log>>
    /\ \A i \in Ids :
          (IsSome(store'[i]) /\ store'[i] # store[i]) =>
              \E p \in Procs :
                  /\ pc[p] = "save_replace" /\ pc'[p] = "save_done"
                  /\ store'[i] = mem[p]

(* C15: a record with the costs of an earlier version (memory 0,           *)
(* parallelism 0, iterations > 0) is checked by check_password with PBKDF2; *)
(* check_password and save leave the password fields of a record as they   *)
(* are, and save writes them to its row as they are; set_password alone     *)
(* changes them, and after set_password(Some(_)) they are 2, 1048576 and 8  *)
(* with an Argon2id hash, so that record is not checked with PBKDF2 again.  *)
LazyMigration ==
    []LegacyCheckedModernSet /\ [][OnlySetPasswordChanges]_vars

\* a row that held PBKDF2 costs, as the copy of one handler still shows,
\* which accepted its password with them, now holds the Argon2id costs that
\* set_password and save of another handler gave it
LegacyRowMigrated ==
    \E p, q \in Procs :
        /\ IsSome(mem[p]) /\ IsSome(mem[q])
        /\ Unwrap(mem[p]).uuid = Unwrap(mem[q]).uuid
        /\ Legacy(Unwrap(mem[q]))
        /\ op[q] = "none" /\ result[q] = Some(<<"p1", TRUE>>)
        /\ lastpw[p] = Some(Some("p2"))
        /\ Modern(Unwrap(mem[p]))
        /\ pc[p] = "save_done"
        /\ store[Unwrap(mem[p]).uuid] = mem[p]

----------------------------------------------------------------------------
(* Access ids: the round trip *)

\* find_by_access_id, called with the accessId that to_json gives for a row
\* of the table, returns that row
FindsByEmittedAccessId ==
    \A p \in Procs :
        (pc[p] = "idle" /\ pc'[p] = "find_done") =>
            \A i \in Ids :
                (IsSome(store[i]) /\ input'[p] = to_json(Unwrap(store[i])).accessId) =>
                    result'[p] = Some(store[i])

\* rows with different ids have different accessIds
AccessIdsDiffer ==
    \A i, j \in Ids :
        (IsSome(store[i]) /\ IsSome(store[j]) /\ i # j) =>
            to_json(Unwrap(store[i])).accessId # to_json(Unwrap(store[j])).accessId

(* C16: for every row of the table, find_by_access_id of the accessId that  *)
(* to_json emits for it returns that row; two rows with different ids never *)
(* have the same accessId.                                                  *)
AccessIdRoundTrip ==
    []AccessIdsDiffer /\ [][FindsByEmittedAccessId]_vars

\* two sends are stored, and one of them was found by the accessId of its
\* owner view
FoundByEmittedAccessId ==
    \E p \in Procs, i, j \in Ids :
        /\ i # j /\ IsSome(store[i]) /\ IsSome(store[j])
        /\ op[p] = "find" /\ pc[p] = "find_done"
        /\ input[p] = to_json(Unwrap(store[i])).accessId
        /\ result[p] = Some(store[i])

----------------------------------------------------------------------------
(* Purge: progress *)

\* the rows of the table whose deletion_date is past
PastRows == {i \in Ids : IsSome(store[i]) /\ Unwrap(store[i]).deletion_date < now}

\* every sweep selects every row whose deletion_date is past when it
\* starts, whatever became of it in a sweep before
SweepSelectsEveryPastRow ==
    \A p \in Procs :
        (pc[p] = "idle" /\ op'[p] = "purge" /\ pc'[p] # "panicked") =>
            PastRows =
                (IF IsSome(mem'[p]) THEN {Unwrap(mem'[p]).uuid} ELSE {})
                    \cup {Unwrap(todo'[p][k]).uuid : k \in 1..Len(todo'[p])}

(* C17: a row whose deletion_date is past and whose delete failed in a      *)
(* sweep is selected again by every later sweep; with sweeps repeated, a    *)
(* store whose deletes succeed in the end and no further save of the send,  *)
(* every row whose deletion_date is past is eventually absent.              *)
PurgeProgress ==
    /\ [][SweepSelectsEveryPastRow]_vars
    /\ \A i \in Ids : (i \in PastRows) ~> (store[i] = None)

\* a sweep has ended, and a row it failed to delete is still there
SweepEndedWithRowLeft ==
    /\ pc[Sweeper] = "purge_done"
    /\ \E k \in 1..Len(swept[Sweeper]) :
          /\ swept[Sweeper][k][2] = "Err"
          /\ swept[Sweeper][k][1] \in PastRows

----------------------------------------------------------------------------
(* Save after delete *)

\* q has removed the row of the send i, by delete or in a sweep
Removed(q, i) ==
    \/ /\ op[q] = "delete" /\ pc[q] = "delete_done"
       /\ Unwrap(mem[q]).uuid = i /\ InLog(q, "delete_row:removed")
    \/ /\ op[q] = "purge"
       /\ \E k \in 1..Len(swept[q]) : swept[q][k] = <<i, "Ok">>

\* p is in the store step of a save of a send whose row q has removed
SavingRemoved(p, q) ==
    /\ p # q
    /\ pc[p] \in {"save_replace", "save_update"}
    /\ Removed(q, Unwrap(mem[p]).uuid)
    /\ store[Unwrap(mem[p]).uuid] = None

\* the replace is asked for whatever became of the row, and what it answers
\* decides: accepted, the row is the copy; rejected for a foreign key, the
\* update matches no row and save returns Ok without one; failed, Err
SaveAfterRemoval ==
    \A p, q \in Procs :
        (SavingRemoved(p, q) /\ pc'[p] # pc[p]) =>
            LET s == Unwrap(mem[p])
                e == Last(log'[p])
            IN  /\ e \in PersistEvents \ {"update:1"}
                /\ e = "replace:ok" =>
                      /\ store'[s.uuid] = Some(s)
                      /\ result'[p] = Some("Ok")
                /\ e = "replace:fk" => UNCHANGED <<store, result>>
                /\ e = "update:0" =>
                      /\ store'[s.uuid] = None
                      /\ result'[p] = Some("Ok")
                /\ e \in {"replace:err", "update:err"} =>
                      /\ store'[s.uuid] = None
                      /\ result'[p] = Some("Err")

\* the replace can be accepted whether the row is there or not
ReplaceNeverRefusedForRemoval ==
    \A p \in Procs : pc[p] = "save_replace" => ENABLED SaveReplace(p, "Ok")

(* C18 as amended: save is an upsert by id that takes no account of an      *)
(* earlier removal: when delete or purge has removed the row and a save     *)
(* runs from a copy loaded before, a replace the store accepts puts the row *)
(* back with the copy's values, its past deletion_date included, and save   *)
(* returns Ok; a replace rejected for a foreign key leads to an update that *)
(* matches no row, and save returns Ok with the row absent; any other       *)
(* error is returned and the row stays absent.                              *)
SaveTakesNoAccountOfRemoval ==
    []ReplaceNeverRefusedForRemoval /\ [][SaveAfterRemoval]_vars

\* a sweep removed the row of a send whose deletion_date is past, and the
\* save of a copy loaded before has put it back
RowBackAfterRemoval ==
    \E p, q \in Procs :
        /\ p # q
        /\ op[p] = "save" /\ pc[p] = "save_done" /\ result[p] = Some("Ok")
        /\ Removed(q, Unwrap(mem[p]).uuid) /\ op[q] = "purge"
        /\ store[Unwrap(mem[p]).uuid] = mem[p]
        /\ Unwrap(mem[p]).deletion_date < now

(* C18 as stated: when delete or purge has removed the row and a save then  *)
(* runs from a copy loaded before the removal, that save returns Ok and the *)
(* row is in the table again with the copy's values.                        *)
SaveAfterRemovalRestoresRow ==
    [][\A p, q \in Procs :
          (SavingRemoved(p, q) /\ pc'[p] = "save_done") =>
              /\ result'[p] = Some("Ok")
              /\ store'[Unwrap(mem[p]).uuid] = mem[p]]_vars

----------------------------------------------------------------------------
(* Notification *)

\* how often the owner was notified in the call
Notifications(p) == Len(SelectSeq(log[p], LAMBDA e : e = "notify"))

\* every call of save and delete notifies once, at its start, iff the send
\* has a user owner, whatever it returns; the rest of the call is the same
NotifiedWhateverTheOutcome ==
    \A p \in Procs :
        (op[p] \in {"save", "delete"} /\ pc[p] # "idle") =>
            LET s == Unwrap(mem[p])
                rest == SelectSeq(log[p], LAMBDA e : e # "notify")
            IN  /\ Notifications(p) = (IF IsSome(s.user_uuid) THEN 1 ELSE 0)
                /\ IsSome(s.user_uuid) => log[p][1] = "notify"
                /\ op[p] = "save" =>
                      /\ rest[1] = "revise"
                      /\ pc[p] = "save_done" => Len(rest) > 1 /\ IsSome(result[p])
                /\ op[p] = "delete" =>
                      /\ \A k \in 1..Len(rest) :
                            rest[k] \in BlobEvents \cup RowEvents \cup {"operator:err"}
                      /\ pc[p] = "delete_done" => Len(rest) > 0 /\ IsSome(result[p])

\* save sets the revision_date of the record to now as it starts
SaveAdvancesRevisionDate ==
    \A p \in Procs :
        (pc[p] = "idle" /\ pc'[p] = "save_replace") =>
            /\ Unwrap(mem'[p]).revision_date = now
            /\ Unwrap(mem'[p]).revision_date >= Unwrap(mem[p]).revision_date
            /\ UNCHANGED store

(* C19: save and delete notify on every call, whatever the call returns:    *)
(* for a send of a user each save notifies the owner and sets the           *)
(* revision_date of the record to now, and each delete notifies the owner,  *)
(* also when the call returns an error and the table is as it was; for a    *)
(* send without a user owner nobody is notified and the steps on the store  *)
(* are the same.                                                            *)
NotificationOnEveryCall ==
    []NotifiedWhateverTheOutcome /\ [][SaveAdvancesRevisionDate]_vars

\* the delete of a File send of a user returned the error of the operator:
\* the owner was notified, the row is as it was
NotifiedThoughDeleteFailed ==
    \E p \in Procs :
        /\ op[p] = "delete" /\ pc[p] = "delete_done" /\ result[p] = Some("Err")
        /\ IsSome(Unwrap(mem[p]).user_uuid)
        /\ log[p] = <<"notify", "operator:err">>
        /\ store[Unwrap(mem[p]).uuid] = mem[p]

----------------------------------------------------------------------------
(* delete_all_by_user *)

\* the ids of the sends of the user, in the order the query returned them
Queried(p) ==
    LET rows == RowsOfUser(Unwrap(snap[p]), input[p][1])
    IN  [k \in 1..Len(rows) |-> Unwrap(rows[k]).uuid]

(* C20: delete_all_by_user deletes the sends of the user in query order and *)
(* stops at the first whose delete returns an error, which it returns: the  *)
(* sends before it have been removed, the failing one and every later one   *)
(* are in the table as they were; it returns Ok only when every send the    *)
(* query returned has been deleted.                                         *)
DeleteAllFailsFast ==
    \A p \in Procs :
        (op[p] = "delete_all" /\ IsSome(snap[p])) =>
            LET ids == Queried(p)
                n == Len(swept[p])
            IN  /\ n <= Len(ids)
                /\ \A k \in 1..n : swept[p][k][1] = ids[k]
                /\ \A k \in 1..(n - 1) : swept[p][k][2] = "Ok"
                /\ \A k \in 1..n : swept[p][k][2] = "Ok" => store[ids[k]] = None
                /\ \A k \in 1..Len(ids) :
                      (k > n \/ swept[p][k][2] = "Err") =>
                          store[ids[k]] = Unwrap(snap[p])[ids[k]]
                /\ pc[p] = "delete_all_done" =>
                      /\ result[p] = Some("Ok") =>
                            (n = Len(ids) /\ \A k \in 1..n : store[ids[k]] = None)
                      /\ result[p] = Some("Err") => swept[p][n][2] = "Err"
                      /\ result[p] \in {Some("Ok"), Some("Err")}
                /\ pc[p] # "delete_all_done" =>
                      (IsSome(mem[p]) /\ Unwrap(mem[p]).uuid = ids[n + 1])

\* the delete of the first of two sends of the user failed: Err is
\* returned and the second send was not attempted
DeleteAllStoppedAtFirst ==
    \E p \in Procs :
        /\ op[p] = "delete_all" /\ pc[p] = "delete_all_done"
        /\ result[p] = Some("Err")
        /\ Len(Queried(p)) = 2
        /\ swept[p] = <<<<Queried(p)[1], "Err">>>>
        /\ \A k \in 1..2 : IsSome(store[Queried(p)[k]])

====
